---------------------------- MODULE Spec2Model ----------------------------
(***************************************************************************)
(* Model of the rust-vulkan rendering harness:                             *)
(*   - ResourceManager (src/vulkanapp/resourceManager.rs): memory-type     *)
(*     selection, create_buffer, fill_buffer and the staged transfer;      *)
(*   - VulkanApp (src/vulkanapp.rs and src/vulkanapp/mod.rs): new,         *)
(*     draw_frame, recreate_swapchain;                                     *)
(*   - main (src/main.rs): the event/draw loop.                            *)
(* The device (GPU queue, fences) and the window system are the            *)
(* environment of the program and are modelled as nondeterministic actions.*)
(***************************************************************************)
EXTENDS Naturals, Integers, Sequences, FiniteSets, TLC

(***************************************************************************)
(* Bounds of the model.                                                    *)
(***************************************************************************)
\* entries of the driver's memory_types array (VK_MAX_MEMORY_TYPES in ash)
MaxMemoryTypes == 2
\* iterations of main's loop
MaxFrames == 3
\* inputs (resizes, key presses, close requests) the window system produces
MaxInputs == 2
\* buffers a ResourceManager is asked to create
MaxBuffers == 2
\* fill_buffer calls in one run
MaxFills == 3
\* largest buffer / data size, in elements
MaxSize == 2

NONE == -1

(***************************************************************************)
(* vk::MemoryPropertyFlags: a flag word is the set of its bits.            *)
(***************************************************************************)
DEVICE_LOCAL == "DEVICE_LOCAL"
HOST_VISIBLE == "HOST_VISIBLE"
HOST_COHERENT == "HOST_COHERENT"
MemoryPropertyFlags == SUBSET {DEVICE_LOCAL, HOST_VISIBLE, HOST_COHERENT}

\* Flags::contains(other): every bit of other is set
contains(flags, other) == other \subseteq flags

VARIABLES
    \* ---- physical device (environment) ----
    memory_types,              \* [0..MaxMemoryTypes-1 -> MemoryPropertyFlags]
    memory_type_count,         \* number of valid entries of memory_types
    \* ---- ResourceManager ----
    rmState,                   \* "unbuilt" | "ok" : has new returned a manager
    host_access_policy,        \* <<"None">> | <<"SingleBuffer", i>> | <<"UseStaging", host, device>>
    resources,                 \* Vec<Resource>: sequence of [buffer, size]
    stagingBuffer,             \* Option<Resource>: NONE or the staging buffer's size
    transfer_completed_fence,  \* Option<vk::Fence>: NONE or a fence handle
    \* ---- device objects of the resource manager ----
    fences,                    \* fence handle -> TRUE (signaled) / FALSE
    bufferData,                \* buffer handle -> last data written to its memory
    stagingData,               \* contents of the staging memory
    gpuQueue,                  \* submissions to the vk::Queue not yet completed, oldest first
    \* ---- program outcome ----
    panic,                     \* "" or the message of the panic that ended the program
    \* ---- observations of fill_buffer, for the properties ----
    fills,                     \* number of fill_buffer calls so far
    lastSubmitFence,           \* fence passed to the most recent transfer queue_submit
    stagingRace,               \* a fill wrote staging memory / re-recorded while a transfer was pending
    \* ---- window system (environment) ----
    fb,                        \* <<w, h>>: what window.get_framebuffer_size() returns now
    current_extent_defined,    \* does the surface report current_extent (width # u32::MAX)
    osEvents,                  \* window events not yet delivered by glfw.poll_events()
    close_requested,           \* the user asked the window to close
    envInputs,                 \* number of inputs the environment has produced
    \* ---- main ----
    pc,                        \* position of the (single) program thread
    events,                    \* the event receiver: messages flush_messages will yield
    should_close,              \* window.should_close()
    iteration,                 \* iterations of the while loop started
    drawCalls,                 \* draw_frame calls made / returned
    drawReturns,
    batchResizes,              \* FramebufferSize events handled in this iteration
    batchRecreations,          \* recreate_swapchain calls returned in this iteration
    escapeIteration,           \* iteration in which Escape was first handled, or NONE
    \* ---- VulkanApp ----
    version,                   \* "rs": src/vulkanapp.rs, "mod": src/vulkanapp/mod.rs
    created,                   \* kinds of objects created so far, in creation order
    swapchain_dependent_resources, \* Option: <<>> or <<[swapchain, image_count, extent, old_swapchain]>>
    generation,                \* swapchains created so far (next swapchain handle)
    live,                      \* handles of the swapchain-dependent objects not destroyed
    command_buffers,           \* command_buffers.len()
    in_flight_fences,          \* frame fences: TRUE signaled / FALSE unsignaled
    cur_frame,
    in_flight_frame,
    image_index,               \* local of draw_frame
    rc_size,                   \* local (w, h) of recreate_swapchain
    old_swapchain,             \* local of recreate_swapchain
    new_step,                  \* steps of VulkanApp::new done
    acquire_result,            \* what acquire_next_image returned to this draw_frame
    present_result,            \* what queue_present returned to the last draw_frame
    cbRace,                    \* a command buffer was reset while a submission of it was pending
    vbRace,                    \* the vertex buffer was written while a draw reading it was pending
    steps,                     \* the Vulkan calls of the current draw_frame, in call order
    \* ---- device ----
    gpuStarted,                \* the oldest submission has begun executing
    queryAvailable             \* both timestamp queries of query_pool are available

rmVars == <<rmState, host_access_policy, resources, stagingBuffer, transfer_completed_fence,
            fences, bufferData, stagingData, gpuQueue, fills, lastSubmitFence,
            stagingRace>>
devVars == <<memory_types, memory_type_count>>
envVars == <<fb, current_extent_defined, osEvents, close_requested, envInputs>>
mainVars == <<pc, events, should_close, iteration, drawCalls, drawReturns, batchResizes,
              batchRecreations, escapeIteration>>
swapVars == <<swapchain_dependent_resources, generation, live>>
frameVars == <<command_buffers, in_flight_fences, cur_frame, in_flight_frame, image_index,
               acquire_result, present_result, cbRace, gpuStarted, queryAvailable, vbRace,
               steps>>
appVars == <<envVars, mainVars, version, created, swapVars, frameVars, rc_size, old_swapchain,
             new_step>>
vars == <<devVars, rmVars, panic, appVars>>

\* a submission to the queue: a staged transfer or a frame's command buffer
Transfer(f, d) ==
    [kind |-> "transfer", fence |-> f, dst |-> d, cb |-> NONE, gen |-> NONE, img |-> NONE]
Draw(f, c, g, i) ==
    [kind |-> "draw", fence |-> f, dst |-> NONE, cb |-> c, gen |-> g, img |-> i]

NoPolicy == <<"None">>
SingleBuffer(i) == <<"SingleBuffer", i>>
UseStaging(h, d) == <<"UseStaging", h, d>>

(***************************************************************************)
(* ResourceManager::new                                                    *)
(***************************************************************************)
\* the closure of the three finds: index below memory_type_count, flags contained
ValidWith(i, wanted) ==
    IF i >= memory_type_count THEN FALSE
    ELSE IF contains(memory_types[i], wanted) THEN TRUE
    ELSE FALSE

\* memory_types.iter().enumerate().find(closure): the first index the closure accepts
FindFirst(wanted) ==
    LET S == {i \in 0..(MaxMemoryTypes - 1) : ValidWith(i, wanted)}
    IN  IF S = {} THEN NONE ELSE CHOOSE i \in S : \A j \in S : i <= j

single_memory_type == FindFirst({DEVICE_LOCAL, HOST_COHERENT})

host_visible_memory_type == FindFirst({HOST_COHERENT})

device_memory_type == FindFirst({DEVICE_LOCAL})

\* the match of lines 48-80: the policy, or NoPolicy where the code panics
SelectPolicyStagingFirst ==
    IF host_visible_memory_type # NONE /\ device_memory_type # NONE
    THEN UseStaging(host_visible_memory_type, device_memory_type)
    ELSE IF single_memory_type # NONE THEN SingleBuffer(single_memory_type)
    ELSE NoPolicy

SelectPolicyNoPanic ==
    IF single_memory_type # NONE THEN SingleBuffer(single_memory_type)
    ELSE UseStaging(host_visible_memory_type, device_memory_type)

SelectPolicy ==
    IF single_memory_type # NONE THEN SingleBuffer(single_memory_type)
    ELSE IF host_visible_memory_type # NONE /\ device_memory_type # NONE
         THEN UseStaging(host_visible_memory_type, device_memory_type)
         ELSE NoPolicy

ResourceManager_new ==
    /\ IF SelectPolicy = NoPolicy
       THEN /\ panic' = "No suitable memory types found"
            /\ UNCHANGED rmVars
       ELSE /\ rmState' = "ok"
            /\ host_access_policy' = SelectPolicy
            /\ resources' = <<>>
            /\ stagingBuffer' = NONE
            /\ transfer_completed_fence' = NONE
            /\ UNCHANGED <<panic, fences, bufferData, stagingData, gpuQueue, fills,
                           lastSubmitFence, stagingRace>>
    /\ UNCHANGED devVars


(***************************************************************************)
(* ResourceManager::create_buffer                                          *)
(***************************************************************************)
IsStaging == host_access_policy[1] = "UseStaging"

\* lines 98-102: under UseStaging a new SIGNALED fence replaces transfer_completed_fence
CreateBufferFence ==
    IF IsStaging
    THEN /\ fences' = Append(fences, TRUE)
         /\ transfer_completed_fence' = Len(fences) + 1
    ELSE UNCHANGED <<fences, transfer_completed_fence>>

create_buffer(size) ==
    /\ CreateBufferFence
    /\ resources' = Append(resources, [buffer |-> Len(resources) + 1, size |-> size])
    /\ bufferData' = Append(bufferData, 0)
    /\ UNCHANGED <<rmState, host_access_policy, stagingBuffer, stagingData, gpuQueue,
                   fills, lastSubmitFence, stagingRace, panic, devVars>>

(***************************************************************************)
(* ResourceManager::fill_buffer                                            *)
(***************************************************************************)
\* line 142: assert!(size <= resource.size)
FillAssertFails(resource, len) ==
    /\ len > resource.size
    /\ panic' = "assertion failed: size <= resource.size"
    /\ UNCHANGED <<rmVars, devVars>>

\* lines 145-152: map, copy, unmap the resource's own memory
FillSingleBuffer(resource, len) ==
    /\ len <= resource.size
    /\ host_access_policy[1] = "SingleBuffer"
    /\ fills' = fills + 1
    /\ bufferData' = [bufferData EXCEPT ![resource.buffer] = fills + 1]
    /\ UNCHANGED <<rmState, host_access_policy, resources, stagingBuffer,
                   transfer_completed_fence, fences, stagingData, gpuQueue,
                   lastSubmitFence, stagingRace, panic, devVars>>

\* line 155: wait_for_fences(transfer_completed_fence.unwrap()) returns
FillWaitReturns == fences[transfer_completed_fence]

\* lines 153-255: wait, reset, take or create the staging buffer, write it,
\* record the copy into the transfer command buffer, submit with the fence
FillUseStaging(resource, len) ==
    /\ len <= resource.size
    /\ IsStaging
    /\ transfer_completed_fence # NONE
    /\ FillWaitReturns
    /\ fills' = fills + 1
    /\ stagingRace' = (stagingRace \/ \E k \in 1..Len(gpuQueue) :
                                           gpuQueue[k].kind = "transfer")
    /\ stagingBuffer' = IF stagingBuffer # NONE THEN stagingBuffer ELSE len
    /\ stagingData' = fills + 1
    /\ fences' = [fences EXCEPT ![transfer_completed_fence] = FALSE]
    /\ gpuQueue' = Append(gpuQueue,
                               Transfer(transfer_completed_fence, resource.buffer))
    /\ lastSubmitFence' = transfer_completed_fence
    /\ UNCHANGED <<rmState, host_access_policy, resources, transfer_completed_fence,
                   bufferData, panic, devVars>>

fill_buffer(resource, len) ==
    /\ \/ FillAssertFails(resource, len)
       \/ FillSingleBuffer(resource, len)
       \/ FillUseStaging(resource, len)

(***************************************************************************)
(* The device executes the oldest submitted transfer: cmd_copy_buffer      *)
(* reads the staging memory, then the submit's fence is signaled.          *)
(***************************************************************************)
TransferCompletes ==
    /\ gpuQueue # <<>>
    /\ Head(gpuQueue).kind = "transfer"
    /\ LET t == Head(gpuQueue)
       IN  /\ bufferData' = [bufferData EXCEPT ![t.dst] = stagingData]
           /\ fences' = [fences EXCEPT ![t.fence] = TRUE]
    /\ gpuQueue' = Tail(gpuQueue)
    /\ UNCHANGED <<rmState, host_access_policy, resources, stagingBuffer,
                   transfer_completed_fence, stagingData, fills, lastSubmitFence,
                   stagingRace, panic, devVars>>

(***************************************************************************)
(* Initial states.  The memory-type table is what                          *)
(* get_physical_device_memory_properties reports: entries at and beyond    *)
(* memory_type_count hold arbitrary flag words.                            *)
(***************************************************************************)
InitManager ==
    /\ rmState = "unbuilt"
    /\ host_access_policy = NoPolicy
    /\ resources = <<>>
    /\ stagingBuffer = NONE
    /\ transfer_completed_fence = NONE
    /\ fences = <<>>
    /\ bufferData = <<>>
    /\ stagingData = 0
    /\ gpuQueue = <<>>
    /\ panic = ""
    /\ fills = 0
    /\ lastSubmitFence = NONE
    /\ stagingRace = FALSE

\* the application part of the state while the resource manager is studied alone
InitNoApp ==
    /\ fb = <<1, 1>>
    /\ current_extent_defined = FALSE
    /\ osEvents = <<>>
    /\ close_requested = FALSE
    /\ envInputs = 0
    /\ pc = "none"
    /\ events = <<>>
    /\ should_close = FALSE
    /\ iteration = 0
    /\ drawCalls = 0
    /\ drawReturns = 0
    /\ batchResizes = 0
    /\ batchRecreations = 0
    /\ escapeIteration = NONE
    /\ version = "none"
    /\ created = <<>>
    /\ swapchain_dependent_resources = <<>>
    /\ generation = 0
    /\ live = {}
    /\ command_buffers = 0
    /\ in_flight_fences = <<>>
    /\ cur_frame = 0
    /\ in_flight_frame = 0
    /\ image_index = 0
    /\ rc_size = <<0, 0>>
    /\ old_swapchain = NONE
    /\ new_step = 0
    /\ acquire_result = ""
    /\ present_result = ""
    /\ cbRace = FALSE
    /\ gpuStarted = FALSE
    /\ queryAvailable = FALSE
    /\ vbRace = FALSE
    /\ steps = <<>>

\* every table of MaxMemoryTypes entries
InitNew ==
    /\ memory_types \in [0..(MaxMemoryTypes - 1) -> MemoryPropertyFlags]
    /\ memory_type_count \in 0..MaxMemoryTypes
    /\ InitManager
    /\ InitNoApp

\* the flag words of the memory types of discrete and integrated GPUs
TypicalFlags == {{DEVICE_LOCAL},
                 {HOST_VISIBLE, HOST_COHERENT},
                 {DEVICE_LOCAL, HOST_VISIBLE, HOST_COHERENT}}

InitRM ==
    /\ memory_types \in [0..(MaxMemoryTypes - 1) -> TypicalFlags]
    /\ memory_type_count = MaxMemoryTypes
    /\ InitManager
    /\ InitNoApp

(***************************************************************************)
(* SpecNew: ResourceManager::new on any memory-type table.                 *)
(* SpecRM: new, then any sequence of create_buffer and fill_buffer calls,  *)
(* with the device completing transfers at any time.                       *)
(***************************************************************************)
RMNew ==
    /\ rmState = "unbuilt"
    /\ panic = ""
    /\ ResourceManager_new
    /\ UNCHANGED appVars

CreateBuffer ==
    /\ rmState = "ok"
    /\ panic = ""
    /\ Len(resources) < MaxBuffers
    /\ \E size \in 1..MaxSize : create_buffer(size)
    /\ UNCHANGED appVars

FillBuffer ==
    /\ rmState = "ok"
    /\ panic = ""
    /\ fills < MaxFills
    /\ \E i \in 1..Len(resources) : \E len \in 1..MaxSize : fill_buffer(resources[i], len)
    /\ UNCHANGED appVars

TransferDone ==
    /\ TransferCompletes
    /\ UNCHANGED appVars

NextRM ==
    \/ RMNew
    \/ CreateBuffer
    \/ FillBuffer
    \/ TransferDone

SpecRM == InitRM /\ [][NextRM]_vars

NextNew == RMNew

SpecNew == InitNew /\ [][NextNew]_vars

(***************************************************************************)
(* Properties of ResourceManager::new (SpecNew)                            *)
(***************************************************************************)
TypeIndices == 0..(MaxMemoryTypes - 1)
HasBoth(i) == i < memory_type_count /\ DEVICE_LOCAL \in memory_types[i]
                                    /\ HOST_COHERENT \in memory_types[i]
HasHostCoherent(i) == i < memory_type_count /\ HOST_COHERENT \in memory_types[i]
HasDeviceLocal(i) == i < memory_type_count /\ DEVICE_LOCAL \in memory_types[i]
LowestBoth(i) == HasBoth(i) /\ \A j \in TypeIndices : j < i => ~HasBoth(j)
LowestHostCoherent(i) == HasHostCoherent(i) /\ \A j \in TypeIndices : j < i => ~HasHostCoherent(j)
LowestDeviceLocal(i) == HasDeviceLocal(i) /\ \A j \in TypeIndices : j < i => ~HasDeviceLocal(j)

\* C1: when new returns a manager, the policy is SingleBuffer(i) for the lowest valid
\* index i whose flags hold both DEVICE_LOCAL and HOST_COHERENT if there is one, and
\* otherwise UseStaging with the lowest valid HOST_COHERENT index as host_memory_type
\* and the lowest valid DEVICE_LOCAL index as device_memory_type.
C1_PolicySelection ==
    rmState = "ok" =>
        IF \E i \in TypeIndices : HasBoth(i)
        THEN \E i \in TypeIndices :
                /\ LowestBoth(i)
                /\ host_access_policy = <<"SingleBuffer", i>>
        ELSE \E h, d \in TypeIndices :
                /\ LowestHostCoherent(h)
                /\ LowestDeviceLocal(d)
                /\ host_access_policy = <<"UseStaging", h, d>>

\* two valid types have both flags and the lower one was taken
C1_Witness ==
    /\ rmState = "ok"
    /\ memory_type_count = 2
    /\ HasBoth(0) /\ HasBoth(1)
    /\ host_access_policy = <<"SingleBuffer", 0>>

\* C2: once new has run, it has panicked with "No suitable memory types found" and
\* produced no manager exactly when no valid type has both flags and a valid
\* HOST_COHERENT type or a valid DEVICE_LOCAL type is missing; otherwise it returned
\* a manager with empty resources, no staging buffer and no transfer fence.
C2_PanicOrFreshManager ==
    LET noSuitable == /\ ~\E i \in TypeIndices : HasBoth(i)
                      /\ \/ ~\E i \in TypeIndices : HasHostCoherent(i)
                         \/ ~\E i \in TypeIndices : HasDeviceLocal(i)
    IN  (rmState = "ok" \/ panic # "") =>
            IF noSuitable
            THEN /\ panic = "No suitable memory types found"
                 /\ rmState = "unbuilt"
                 /\ host_access_policy = NoPolicy
            ELSE /\ panic = ""
                 /\ rmState = "ok"
                 /\ resources = <<>>
                 /\ stagingBuffer = NONE
                 /\ transfer_completed_fence = NONE

\* new panicked on a table that has a valid HOST_COHERENT type but no DEVICE_LOCAL one
C2_Witness ==
    /\ panic = "No suitable memory types found"
    /\ rmState = "unbuilt"
    /\ \E i \in TypeIndices : HasHostCoherent(i)
    /\ ~\E i \in TypeIndices : HasDeviceLocal(i)

(***************************************************************************)
(* Properties of the staged upload (SpecRM)                                *)
(***************************************************************************)
\* C3: under UseStaging, fill_buffer never writes the staging memory nor re-records
\* the transfer command buffer while a submitted transfer is pending: the fence the
\* next fill_buffer waits on is the fence given to the most recent transfer submit,
\* and at most one staged transfer is in flight.
C3_OneTransferInFlight ==
    IsStaging =>
        /\ ~stagingRace
        /\ Len(gpuQueue) <= 1
        /\ (lastSubmitFence # NONE => transfer_completed_fence = lastSubmitFence)

(***************************************************************************)
(*                              VulkanApp                                  *)
(***************************************************************************)
\* framebuffer sizes: minimized, and two sizes of a visible window
FramebufferSizes == {<<0, 0>>, <<1, 1>>, <<2, 2>>}
\* number of images the driver gives a swapchain
ImageCounts == {1, 2}
\* the extent limits get_physical_device_surface_capabilities reports
surface_capabilities == [min_image_extent |-> 1, max_image_extent |-> 2]

Max(a, b) == IF a >= b THEN a ELSE b
Min(a, b) == IF a <= b THEN a ELSE b

Handle(kind, g, i) == <<kind, g, i>>

\* what recreate_swapchain destroys before creating: framebuffers, pipeline,
\* pipeline layout, render pass, image views of generation g
DestroyedFirst(g, n) ==
    {Handle("framebuffer", g, i) : i \in 0..(n - 1)}
        \cup {Handle("pipeline", g, 0), Handle("pipeline_layout", g, 0),
              Handle("render_pass", g, 0)}
        \cup {Handle("image_view", g, i) : i \in 0..(n - 1)}

\* everything create_swapchain_dependent_resources creates and keeps
CreatedObjects(v, g, n) ==
    {Handle("swapchain", g, 0)} \cup DestroyedFirst(g, n)
        \cup (IF v = "mod"
              THEN {Handle("descriptor_set_layout", g, 0), Handle("descriptor_pool", g, 0),
                    Handle("descriptor_set", g, 0)}
              ELSE {})

\* the order in which create_swapchain_dependent_resources creates them
SwapchainCreationOrder(v) ==
    <<"swapchain", "image_views", "render_pass", "framebuffers">>
        \o (IF v = "mod" THEN <<"descriptor_set_layout", "descriptor_pool", "descriptor_set">>
                         ELSE <<>>)
        \o <<"pipeline_layout", "pipeline">>

\* lines 422-434: the extent of the new swapchain
swapchain_extent ==
    IF current_extent_defined
    THEN fb
    ELSE <<Min(Max(fb[1], surface_capabilities.min_image_extent),
               surface_capabilities.max_image_extent),
           Min(Max(fb[2], surface_capabilities.min_image_extent),
               surface_capabilities.max_image_extent)>>

\* create_swapchain_dependent_resources(.., old): old is NONE or a swapchain handle
create_swapchain_dependent_resources(old) ==
    \E n \in ImageCounts :
        /\ swapchain_dependent_resources' =
               <<[swapchain |-> generation, image_count |-> n,
                  extent |-> swapchain_extent, old_swapchain |-> old]>>
        /\ generation' = generation + 1
        /\ live' = live \cup CreatedObjects(version, generation, n)

(***************************************************************************)
(* VulkanApp::new: the objects in the order the code creates them.         *)
(***************************************************************************)
IN_FLIGHT_FRAMES == 2

NewPlanSpecOrder ==
    <<"instance", "device", "surface", "swapchain_dependent_resources",
      "command_pool", "command_buffers", "semaphores", "fences">>

NewPlanRs ==
    <<"instance", "surface", "device", "swapchain_dependent_resources",
      "command_pool", "command_buffers", "semaphores", "fences">>

NewPlanMod ==
    <<"instance", "surface", "device", "command_pool", "command_buffers",
      "semaphores", "fences", "resource_command_buffer", "resource_manager",
      "vertex_buffer", "texture", "swapchain_dependent_resources", "query_pool">>

NewPlan == IF version = "rs" THEN NewPlanRs ELSE NewPlanMod

NewStep ==
    /\ pc = "new"
    /\ panic = ""
    /\ LET item == NewPlan[new_step + 1]
       IN  /\ created' = IF item = "swapchain_dependent_resources"
                         THEN created \o SwapchainCreationOrder(version)
                         ELSE Append(created, item)
           /\ IF item = "swapchain_dependent_resources"
              THEN create_swapchain_dependent_resources(NONE)
              ELSE UNCHANGED swapVars
           /\ command_buffers' =
                  IF item # "command_buffers" THEN command_buffers
                  ELSE IF version = "rs" THEN swapchain_dependent_resources[1].image_count
                  ELSE 2
           /\ in_flight_fences' =
                  IF item # "fences" THEN in_flight_fences
                  ELSE IF version = "rs" THEN <<TRUE>>
                  ELSE [i \in 1..IN_FLIGHT_FRAMES |-> TRUE]
           /\ IF item = "resource_manager" THEN ResourceManager_new
              ELSE IF item = "vertex_buffer" THEN create_buffer(1)
              ELSE UNCHANGED <<rmVars, panic, devVars>>
    /\ new_step' = new_step + 1
    /\ pc' = IF new_step + 1 = Len(NewPlan) THEN "loop_check" ELSE "new"
    /\ UNCHANGED <<envVars, events, should_close, iteration, drawCalls, drawReturns,
                   batchResizes, batchRecreations, escapeIteration, version, cur_frame,
                   in_flight_frame, image_index, acquire_result, present_result, cbRace,
                   gpuStarted, queryAvailable, vbRace, steps, rc_size, old_swapchain>>

(***************************************************************************)
(* The window system.                                                      *)
(***************************************************************************)
EnvUnchanged == UNCHANGED <<devVars, rmVars, panic, mainVars, version, created, swapVars,
                            frameVars, rc_size, old_swapchain, new_step>>

\* The program observes the window only through get_framebuffer_size and
\* poll_events.  An input that arrives while it does neither is the same to it
\* as one that arrives just before it next looks, so inputs are produced at the
\* positions where the next step looks at the window.
LooksAtWindow ==
    \/ pc \in {"poll", "events", "rc_size", "rc_create"}
    \/ pc = "new" /\ NewPlan[new_step + 1] = "swapchain_dependent_resources"

\* the framebuffer changes size: get_framebuffer_size sees it at once, the
\* FramebufferSize event is delivered by the next poll_events
EnvResize ==
    /\ LooksAtWindow
    /\ envInputs < MaxInputs
    /\ \E size \in FramebufferSizes :
        /\ size # fb
        /\ fb' = size
        /\ osEvents' = Append(osEvents, <<"FramebufferSize", size[1], size[2]>>)
    /\ envInputs' = envInputs + 1
    /\ UNCHANGED <<current_extent_defined, close_requested>>
    /\ EnvUnchanged

\* key presses and close requests reach the program only through poll_events
EnvKey ==
    /\ pc = "poll"
    /\ envInputs < MaxInputs
    /\ \E k \in {"Escape", "Other"} : osEvents' = Append(osEvents, <<"Key", k>>)
    /\ envInputs' = envInputs + 1
    /\ UNCHANGED <<fb, current_extent_defined, close_requested>>
    /\ EnvUnchanged

EnvClose ==
    /\ pc = "poll"
    /\ envInputs < MaxInputs
    /\ ~close_requested
    /\ close_requested' = TRUE
    /\ envInputs' = envInputs + 1
    /\ UNCHANGED <<fb, current_extent_defined, osEvents>>
    /\ EnvUnchanged

(***************************************************************************)
(* main: the loop of lines 63-100.                                         *)
(***************************************************************************)
Running == panic = ""

\* line 63: while !window.should_close()
LoopContinuesAlways == TRUE

LoopContinues == ~should_close

LoopCheck ==
    /\ pc = "loop_check"
    /\ Running
    /\ IF ~LoopContinues
       THEN pc' = "exited" /\ UNCHANGED iteration
       ELSE /\ iteration < MaxFrames
            /\ pc' = "poll"
            /\ iteration' = iteration + 1
    /\ acquire_result' = ""
    /\ present_result' = ""
    /\ steps' = <<>>
    /\ UNCHANGED <<devVars, rmVars, panic, envVars, events, should_close, drawCalls,
                   drawReturns, batchResizes, batchRecreations, escapeIteration, version,
                   created, swapVars, command_buffers, in_flight_fences, cur_frame,
                   in_flight_frame, image_index, cbRace, gpuStarted, queryAvailable, vbRace,
                   rc_size, old_swapchain, new_step>>

\* line 68: glfw.poll_events() delivers the pending events to the receiver
PollEvents ==
    /\ pc = "poll"
    /\ Running
    /\ events' = events \o osEvents
    /\ osEvents' = <<>>
    /\ should_close' = (should_close \/ close_requested)
    /\ batchResizes' = 0
    /\ batchRecreations' = 0
    /\ pc' = "events"
    /\ UNCHANGED <<devVars, rmVars, panic, fb, current_extent_defined, close_requested,
                   envInputs, iteration, drawCalls, drawReturns, escapeIteration, version,
                   created, swapVars, frameVars, rc_size, old_swapchain, new_step>>

\* lines 69-79: one message of flush_messages
HandleMessage(e) ==
    IF e = <<"Key", "Escape">>
    THEN /\ should_close' = TRUE
         /\ escapeIteration' = IF escapeIteration = NONE THEN iteration ELSE escapeIteration
         /\ pc' = "events"
         /\ UNCHANGED <<rc_size, batchResizes>>
    ELSE IF e[1] = "FramebufferSize"
    THEN \* framebuffer_resize -> recreate_swapchain, line 657
         /\ batchResizes' = batchResizes + 1
         /\ rc_size' = fb
         /\ pc' = "rc_size"
         /\ UNCHANGED <<should_close, escapeIteration>>
    ELSE /\ pc' = "events"
         /\ UNCHANGED <<should_close, escapeIteration, rc_size, batchResizes>>

HandleEvent ==
    /\ pc = "events"
    /\ Running
    /\ events # <<>>
    /\ HandleMessage(Head(events))
    /\ events' = Tail(events)
    /\ UNCHANGED <<devVars, rmVars, panic, envVars, iteration, drawCalls, drawReturns,
                   batchRecreations, version, created, swapVars, frameVars, old_swapchain,
                   new_step>>

\* line 86: vulkan_app.draw_frame()
CallDrawEarly == pc = "events"

CallDrawReady == pc = "events" /\ events = <<>>

CallDraw ==
    /\ CallDrawReady
    /\ Running
    /\ pc' = "draw_wait"
    /\ drawCalls' = drawCalls + 1
    /\ UNCHANGED <<devVars, rmVars, panic, envVars, events, should_close, iteration,
                   drawReturns, batchResizes, batchRecreations, escapeIteration, version,
                   created, swapVars, frameVars, rc_size, old_swapchain, new_step>>

(***************************************************************************)
(* VulkanApp::recreate_swapchain                                           *)
(***************************************************************************)
RcUnchanged == UNCHANGED <<devVars, rmVars, panic, envVars, events, should_close, iteration,
                           drawCalls, drawReturns, batchResizes, escapeIteration, version,
                           created, frameVars, new_step>>

\* lines 658-660: while w == 0 || h == 0 { (w, h) = window.get_framebuffer_size(); }
SizeIsZero(size) == size[1] = 0 \/ size[2] = 0

RcSizeLoop ==
    /\ pc = "rc_size"
    /\ Running
    /\ IF SizeIsZero(rc_size)
       THEN rc_size' = fb /\ pc' = "rc_size"
       ELSE pc' = "rc_idle" /\ UNCHANGED rc_size
    /\ UNCHANGED <<swapVars, old_swapchain, batchRecreations>>
    /\ RcUnchanged

\* line 662: device_wait_idle returns once the queue has nothing left to execute
DeviceWaitIdleSkipped == TRUE

DeviceWaitIdleReturns == gpuQueue = <<>>

RcWaitIdle ==
    /\ pc = "rc_idle"
    /\ Running
    /\ DeviceWaitIdleReturns
    /\ pc' = "rc_destroy"
    /\ UNCHANGED <<swapVars, rc_size, old_swapchain, batchRecreations>>
    /\ RcUnchanged

\* lines 665-681: destroy the dependent objects, remember the swapchain
RcDestroy ==
    /\ pc = "rc_destroy"
    /\ Running
    /\ IF swapchain_dependent_resources = <<>>
       THEN /\ pc' = "events"
            /\ batchRecreations' = batchRecreations + 1
            /\ UNCHANGED <<swapVars, old_swapchain>>
       ELSE LET r == swapchain_dependent_resources[1]
            IN  /\ live' = live \ DestroyedFirst(r.swapchain, r.image_count)
                /\ old_swapchain' = r.swapchain
                /\ pc' = "rc_create"
                /\ UNCHANGED <<swapchain_dependent_resources, generation, batchRecreations>>
    /\ UNCHANGED rc_size
    /\ RcUnchanged

\* lines 683-691: self.swapchain_dependent_resources = Some(create_..(.., Some(old)))
RecreatedResourcesDropped(old) ==
    /\ swapchain_dependent_resources' = <<>>
    /\ generation' = generation + 1
    /\ live' = live

RecreatedResources(old) == create_swapchain_dependent_resources(old)

RcCreate ==
    /\ pc = "rc_create"
    /\ Running
    /\ RecreatedResources(old_swapchain)
    /\ pc' = "rc_destroy_old"
    /\ UNCHANGED <<rc_size, old_swapchain, batchRecreations>>
    /\ RcUnchanged

\* line 693: destroy_swapchain(old_swapchain), then return to the event loop
KeepOldSwapchain == live' = live

DestroyOldSwapchain == live' = live \ {Handle("swapchain", old_swapchain, 0)}

RcDestroyOld ==
    /\ pc = "rc_destroy_old"
    /\ Running
    /\ DestroyOldSwapchain
    /\ batchRecreations' = batchRecreations + 1
    /\ pc' = "events"
    /\ UNCHANGED <<swapchain_dependent_resources, generation, rc_size, old_swapchain>>
    /\ RcUnchanged

(***************************************************************************)
(* VulkanApp::draw_frame                                                   *)
(***************************************************************************)
DrawUnchanged == UNCHANGED <<envVars, events, should_close, iteration, drawCalls,
                             batchResizes, batchRecreations, escapeIteration, version,
                             created, swapVars, rc_size, old_swapchain, new_step>>

\* the fence this frame waits on and signals (1-based)
FrameFence == IF version = "rs" THEN 1 ELSE in_flight_frame + 1

\* the fence handed to queue_submit
SubmitOtherFence ==
    IF version = "rs" THEN 1 ELSE ((in_flight_frame + 1) % IN_FLIGHT_FRAMES) + 1

SubmitFence == FrameFence

\* the command buffer this frame records
FrameCommandBufferShared == IF version = "rs" THEN image_index ELSE 0

FrameCommandBuffer == IF version = "rs" THEN image_index ELSE cur_frame

\* the semaphores of this frame: the single pair of vulkanapp.rs, the pair [frame] of mod.rs
FrameSemaphore == IF version = "rs" THEN 0 ELSE cur_frame

image_available_semaphore == <<"image_available", FrameSemaphore>>

PresentWaitsImageAvailable == <<"image_available", FrameSemaphore>>

render_finished_semaphore == <<"render_finished", FrameSemaphore>>

\* mod.rs lines 514-515: the frame indices after this frame
NextCurFrameStuck == cur_frame

NextCurFrame == (cur_frame + 1) % command_buffers

NextInFlightFrame == (in_flight_frame + 1) % IN_FLIGHT_FRAMES

\* wait_for_fences, reset_fences, acquire_next_image(..).expect(..)
DrawWaitAcquire ==
    /\ pc = "draw_wait"
    /\ Running
    /\ IF swapchain_dependent_resources = <<>>
       THEN /\ panic' = "called Option::unwrap() on a None value"
            /\ UNCHANGED <<pc, in_flight_fences, image_index, acquire_result, steps>>
       ELSE /\ in_flight_fences[FrameFence]
            /\ in_flight_fences' = [in_flight_fences EXCEPT ![FrameFence] = FALSE]
            /\ steps' = steps \o <<<<"wait_for_fences", FrameFence>>,
                                   <<"reset_fences", FrameFence>>,
                                   <<"acquire_next_image", image_available_semaphore>>>>
            /\ \E r \in {"ok", "suboptimal", "error"} :
                /\ acquire_result' = r
                /\ IF r = "error"
                   THEN /\ panic' = "Failed to acquire next image."
                        /\ UNCHANGED <<pc, image_index>>
                   ELSE /\ \E i \in 0..(swapchain_dependent_resources[1].image_count - 1) :
                              image_index' = i
                        /\ pc' = IF version = "mod" THEN "draw_fill" ELSE "draw_record"
                        /\ UNCHANGED panic
    /\ UNCHANGED <<devVars, rmVars, drawReturns, command_buffers, cur_frame, in_flight_frame,
                   present_result, cbRace, gpuStarted, queryAvailable, vbRace>>
    /\ DrawUnchanged

\* a draw not yet completed reads the vertex buffer (cmd_bind_vertex_buffers, cmd_draw)
DrawPending == \E k \in 1..Len(gpuQueue) : gpuQueue[k].kind = "draw"

\* mod.rs line 397: resource_manager.fill_buffer(vertex_buffer, vertex_data).  Under
\* SingleBuffer the host writes the buffer's memory in this call; under UseStaging the
\* copy is a later submission to the same queue, which the barrier recorded by
\* cmd_barrier_after_vertex_buffer_use orders after the reads of the earlier draws.
DrawFill ==
    /\ pc = "draw_fill"
    /\ Running
    /\ rmState = "ok"
    /\ fill_buffer(resources[1], resources[1].size)
    /\ vbRace' = (vbRace \/ (host_access_policy[1] = "SingleBuffer" /\ DrawPending))
    /\ steps' = Append(steps, <<"fill_buffer">>)
    /\ pc' = "draw_record"
    /\ UNCHANGED <<drawReturns, command_buffers, in_flight_fences, cur_frame, in_flight_frame,
                   image_index, acquire_result, present_result, cbRace, gpuStarted,
                   queryAvailable>>
    /\ DrawUnchanged

\* reset_command_buffer and the recording; the index expressions are bounds-checked
DrawRecord ==
    /\ pc = "draw_record"
    /\ Running
    /\ IF FrameCommandBuffer >= command_buffers
       THEN /\ panic' = "index out of bounds"
            /\ UNCHANGED <<pc, cbRace, steps>>
       ELSE /\ cbRace' = (cbRace \/ \E k \in 1..Len(gpuQueue) :
                                       /\ gpuQueue[k].kind = "draw"
                                       /\ gpuQueue[k].cb = FrameCommandBuffer)
            /\ steps' = Append(steps, <<"record", FrameCommandBuffer>>)
            /\ pc' = "draw_submit"
            /\ UNCHANGED panic
    /\ UNCHANGED <<devVars, rmVars, drawReturns, command_buffers, in_flight_fences, cur_frame,
                   in_flight_frame, image_index, acquire_result, present_result, gpuStarted,
                   queryAvailable, vbRace>>
    /\ DrawUnchanged

\* reset_fences (vulkanapp.rs only), queue_submit with the frame's fence, and the
\* present_info built for queue_present
DrawSubmit ==
    /\ pc = "draw_submit"
    /\ Running
    /\ in_flight_fences' = [in_flight_fences EXCEPT ![FrameFence] = FALSE]
    /\ gpuQueue' = Append(gpuQueue, Draw(SubmitFence, FrameCommandBuffer,
                                         swapchain_dependent_resources[1].swapchain,
                                         image_index))
    /\ steps' = steps
                 \o (IF version = "rs" THEN <<<<"reset_fences", FrameFence>>>> ELSE <<>>)
                 \o <<<<"queue_submit", image_available_semaphore, FrameCommandBuffer,
                        render_finished_semaphore, SubmitFence>>,
                      <<"present_info", render_finished_semaphore>>>>
    /\ pc' = IF version = "mod" THEN "draw_query" ELSE "draw_present"
    /\ UNCHANGED <<devVars, panic, rmState, host_access_policy, resources, stagingBuffer,
                   transfer_completed_fence, fences, bufferData, stagingData, fills,
                   lastSubmitFence, stagingRace, drawReturns, command_buffers, cur_frame,
                   in_flight_frame, image_index, acquire_result, present_result, cbRace,
                   gpuStarted, queryAvailable, vbRace>>
    /\ DrawUnchanged

\* mod.rs lines 502-515: get_query_pool_results(.., WAIT), then advance the frame indices
DrawQuery ==
    /\ pc = "draw_query"
    /\ Running
    /\ queryAvailable
    /\ cur_frame' = NextCurFrame
    /\ in_flight_frame' = NextInFlightFrame
    /\ steps' = Append(steps, <<"get_query_pool_results">>)
    /\ pc' = "draw_present"
    /\ UNCHANGED <<devVars, rmVars, panic, drawReturns, command_buffers, in_flight_fences,
                   image_index, acquire_result, present_result, cbRace, gpuStarted,
                   queryAvailable, vbRace>>
    /\ DrawUnchanged

\* queue_present: every result is only printed; draw_frame returns true
PresentRecreatesOnError(r) ==
    /\ pc' = IF r = "error" THEN "rc_size" ELSE "loop_check"
    /\ rc_size' = fb
    /\ UNCHANGED <<swapVars, old_swapchain, batchResizes>>

PresentOutcome(r) ==
    /\ pc' = "loop_check"
    /\ UNCHANGED <<swapVars, rc_size, old_swapchain, batchResizes>>

\* the present_info this draw_frame built after its queue_submit
present_info ==
    steps[CHOOSE k \in 1..Len(steps) : steps[k][1] = "present_info"]

DrawPresent ==
    /\ pc = "draw_present"
    /\ Running
    /\ \E r \in {"ok", "suboptimal", "error"} :
        /\ present_result' = r
        /\ PresentOutcome(r)
    /\ steps' = Append(steps, <<"queue_present", present_info[2]>>)
    /\ drawReturns' = drawReturns + 1
    /\ image_index' = 0
    /\ UNCHANGED <<devVars, rmVars, panic, command_buffers, in_flight_fences, cur_frame,
                   in_flight_frame, acquire_result, cbRace, gpuStarted, queryAvailable,
                   vbRace>>
    /\ UNCHANGED <<envVars, events, should_close, iteration, drawCalls, batchRecreations,
                   escapeIteration, version, created, new_step>>

(***************************************************************************)
(* The device: submissions complete in submission order.                   *)
(***************************************************************************)
GpuUnchanged == UNCHANGED <<envVars, mainVars, version, created, swapVars, rc_size,
                            old_swapchain, new_step, command_buffers, cur_frame,
                            in_flight_frame, image_index, acquire_result, present_result,
                            cbRace, vbRace, steps>>

\* mod.rs: the command buffer starts with cmd_reset_query_pool
GpuStart ==
    /\ gpuQueue # <<>>
    /\ Head(gpuQueue).kind = "draw"
    /\ version = "mod"
    /\ ~gpuStarted
    /\ gpuStarted' = TRUE
    /\ queryAvailable' = FALSE
    /\ UNCHANGED <<devVars, rmVars, panic, in_flight_fences>>
    /\ GpuUnchanged

DrawCompletes ==
    /\ gpuQueue # <<>>
    /\ Head(gpuQueue).kind = "draw"
    /\ version = "rs" \/ gpuStarted
    /\ in_flight_fences' = [in_flight_fences EXCEPT ![Head(gpuQueue).fence] = TRUE]
    /\ gpuQueue' = Tail(gpuQueue)
    /\ gpuStarted' = FALSE
    /\ queryAvailable' = (version = "mod")
    /\ UNCHANGED <<devVars, panic, rmState, host_access_policy, resources, stagingBuffer,
                   transfer_completed_fence, fences, bufferData, stagingData, fills,
                   lastSubmitFence, stagingRace>>
    /\ GpuUnchanged

(***************************************************************************)
(* Spec: the program of main.rs with either version of VulkanApp.          *)
(***************************************************************************)
\* memory-type tables giving SingleBuffer, UseStaging and the panic of new
AppTables ==
    {[i \in 0..(MaxMemoryTypes - 1) |-> {DEVICE_LOCAL, HOST_VISIBLE, HOST_COHERENT}],
     [i \in 0..(MaxMemoryTypes - 1) |->
          IF i = 0 THEN {DEVICE_LOCAL} ELSE {HOST_VISIBLE, HOST_COHERENT}],
     [i \in 0..(MaxMemoryTypes - 1) |-> {DEVICE_LOCAL}]}

Init ==
    /\ version \in {"rs", "mod"}
    /\ memory_types \in AppTables
    /\ version = "rs" => memory_types[0] = {DEVICE_LOCAL, HOST_VISIBLE, HOST_COHERENT}
    /\ memory_type_count = MaxMemoryTypes
    /\ InitManager
    /\ fb = <<1, 1>>
    /\ current_extent_defined \in BOOLEAN
    /\ osEvents = <<>>
    /\ close_requested = FALSE
    /\ envInputs = 0
    /\ pc = "new"
    /\ events = <<>>
    /\ should_close = FALSE
    /\ iteration = 0
    /\ drawCalls = 0
    /\ drawReturns = 0
    /\ batchResizes = 0
    /\ batchRecreations = 0
    /\ escapeIteration = NONE
    /\ created = <<>>
    /\ swapchain_dependent_resources = <<>>
    /\ generation = 0
    /\ live = {}
    /\ command_buffers = 0
    /\ in_flight_fences = <<>>
    /\ cur_frame = 0
    /\ in_flight_frame = 0
    /\ image_index = 0
    /\ rc_size = <<0, 0>>
    /\ old_swapchain = NONE
    /\ new_step = 0
    /\ acquire_result = ""
    /\ present_result = ""
    /\ cbRace = FALSE
    /\ gpuStarted = FALSE
    /\ queryAvailable = FALSE
    /\ vbRace = FALSE
    /\ steps = <<>>

Next ==
    \/ NewStep
    \/ EnvResize
    \/ EnvKey
    \/ EnvClose
    \/ LoopCheck
    \/ PollEvents
    \/ HandleEvent
    \/ CallDraw
    \/ RcSizeLoop
    \/ RcWaitIdle
    \/ RcDestroy
    \/ RcCreate
    \/ RcDestroyOld
    \/ DrawWaitAcquire
    \/ DrawFill
    \/ DrawRecord
    \/ DrawSubmit
    \/ DrawQuery
    \/ DrawPresent
    \/ GpuStart
    \/ DrawCompletes
    \/ TransferDone

Spec == Init /\ [][Next]_vars

(***************************************************************************)
(* Properties of the main loop and of swapchain recreation (Spec)          *)
(***************************************************************************)
RcPcs == {"rc_size", "rc_idle", "rc_destroy", "rc_create", "rc_destroy_old"}
DrawPcs == {"draw_wait", "draw_fill", "draw_record", "draw_submit", "draw_query",
            "draw_present"}
NonZero(size) == size[1] # 0 /\ size[2] # 0
LiveSwapchains == {h \in live : h[1] = "swapchain"}
Created(kind) == \E k \in 1..Len(created) : created[k] = kind
\* kind b is never created before kind a
Before(a, b) == Created(b) => Created(a)

\* C4: in every iteration the polled events are all handled before draw_frame is
\* called, draw_frame is called once per iteration, every FramebufferSize event
\* handled has had its one recreation completed before the draw, and while a
\* recreation runs no draw_frame of this iteration has started.
C4_EventsThenOneDraw ==
    /\ drawReturns <= drawCalls /\ drawCalls <= drawReturns + 1
    /\ pc \in DrawPcs =>
          /\ events = <<>>
          /\ batchRecreations = batchResizes
          /\ drawCalls = iteration
          /\ drawReturns = iteration - 1
    /\ pc \in {"poll", "events"} \cup RcPcs =>
          /\ drawCalls = iteration - 1
          /\ drawReturns = iteration - 1
    /\ pc = "events" => batchRecreations = batchResizes
    /\ pc \in RcPcs => batchResizes = batchRecreations + 1
    /\ pc \in {"loop_check", "exited"} => drawCalls = iteration /\ drawReturns = iteration

\* a draw_frame starts after two FramebufferSize events of its batch were each recreated
C4_Witness ==
    /\ pc = "draw_wait"
    /\ batchResizes = 2
    /\ batchRecreations = 2
    /\ generation = 3

\* C5: recreate_swapchain destroys only after device_wait_idle: while it destroys and
\* creates, the queue holds no submission, and no submitted frame ever references a
\* framebuffer, image view, render pass, pipeline, pipeline layout or swapchain that
\* has been destroyed.
C5_NoDestroyWhileInUse ==
    /\ pc \in {"rc_destroy", "rc_create", "rc_destroy_old"} => gpuQueue = <<>>
    /\ \A k \in 1..Len(gpuQueue) :
          gpuQueue[k].kind = "draw" =>
              {Handle("swapchain", gpuQueue[k].gen, 0),
               Handle("framebuffer", gpuQueue[k].gen, gpuQueue[k].img),
               Handle("image_view", gpuQueue[k].gen, gpuQueue[k].img),
               Handle("render_pass", gpuQueue[k].gen, 0),
               Handle("pipeline", gpuQueue[k].gen, 0),
               Handle("pipeline_layout", gpuQueue[k].gen, 0)} \subseteq live

\* a recreation has destroyed the first swapchain's objects after a frame was drawn with them
C5_Witness ==
    /\ pc = "rc_create"
    /\ drawReturns >= 1
    /\ Handle("render_pass", 0, 0) \notin live
    /\ gpuQueue = <<>>

\* C6: the swapchain being replaced is passed as old_swapchain to the creation of its
\* successor, it is destroyed only once the successor and its dependent objects
\* exist, and outside recreate_swapchain the app holds exactly one live swapchain,
\* the current one, which is the one every draw_frame uses.
C6_OldSwapchainHandover ==
    /\ swapchain_dependent_resources # <<>> =>
          LET r == swapchain_dependent_resources[1]
          IN  /\ r.swapchain = generation - 1
              /\ r.old_swapchain = (IF r.swapchain = 0 THEN NONE ELSE r.swapchain - 1)
              /\ pc \notin RcPcs /\ pc # "new" =>
                    LiveSwapchains = {Handle("swapchain", r.swapchain, 0)}
              /\ pc = "rc_destroy_old" =>
                    /\ old_swapchain = r.old_swapchain
                    /\ CreatedObjects(version, r.swapchain, r.image_count) \subseteq live
    /\ \A g \in 0..(generation - 1) :
          Handle("swapchain", g, 0) \notin live => generation >= g + 2

\* recreate_swapchain has returned: swapchain 1 replaced swapchain 0
C6_Witness ==
    /\ pc = "events"
    /\ generation = 2
    /\ batchRecreations = 1
    /\ LiveSwapchains = {Handle("swapchain", 1, 0)}
    /\ swapchain_dependent_resources[1].old_swapchain = 0

\* C7: recreate_swapchain goes on to destroy and create only after reading a
\* framebuffer size with both dimensions non-zero, and every swapchain it creates
\* has an extent that is non-zero in both dimensions.
C7_NonZeroExtent ==
    /\ pc \in {"rc_idle", "rc_destroy", "rc_create", "rc_destroy_old"} => NonZero(rc_size)
    /\ swapchain_dependent_resources # <<>> =>
          (swapchain_dependent_resources[1].swapchain > 0 =>
              NonZero(swapchain_dependent_resources[1].extent))

\* C8: a recreation starts only in the handler of a FramebufferSize event; whatever
\* queue_present returns, draw_frame returns to the loop with the swapchain and the
\* frame state as they were and without panicking; a suboptimal acquire lets the
\* frame go on with the same swapchain; an acquire error panics and recreates nothing.
C8_OnlyResizeRecreates ==
    [][/\ (pc # "rc_size" /\ pc' = "rc_size") =>
              /\ pc = "events"
              /\ events # <<>>
              /\ Head(events)[1] = "FramebufferSize"
       /\ (pc = "draw_present" /\ pc' # pc) =>
              /\ present_result' \in {"ok", "suboptimal", "error"}
              /\ pc' = "loop_check"
              /\ drawReturns' = drawReturns + 1
              /\ panic' = ""
              /\ UNCHANGED <<swapVars, command_buffers, in_flight_fences, cur_frame,
                             in_flight_frame, gpuQueue>>
       /\ (pc = "draw_wait" /\ acquire_result' = "suboptimal") =>
              /\ pc' \in {"draw_fill", "draw_record"}
              /\ panic' = ""
              /\ UNCHANGED swapVars
       /\ (pc = "draw_wait" /\ acquire_result' = "error") =>
              /\ panic' = "Failed to acquire next image."
              /\ pc' = pc
              /\ UNCHANGED swapVars
      ]_vars

\* a draw_frame whose acquire was suboptimal and whose present failed has returned
C8_Witness ==
    /\ pc = "loop_check"
    /\ acquire_result = "suboptimal"
    /\ present_result = "error"
    /\ panic = ""
    /\ generation = 1

\* C9 as stated: instance, device, surface, swapchain, render pass, pipeline,
\* command buffers, synchronization primitives are created in that order.
C9_SpecOrder ==
    /\ Before("instance", "device")
    /\ Before("device", "surface")
    /\ Before("surface", "swapchain")
    /\ Before("swapchain", "render_pass")
    /\ Before("render_pass", "pipeline")
    /\ Before("pipeline", "command_buffers")
    /\ Before("command_buffers", "semaphores")
    /\ Before("semaphores", "fences")

\* C9 amended: vulkanapp.rs creates instance, surface, device, swapchain, render pass,
\* pipeline, command buffers, synchronization primitives in that order; mod.rs
\* creates instance, surface, device, command buffers, synchronization primitives,
\* swapchain, render pass, pipeline in that order.
C9_CodeOrder ==
    /\ Before("instance", "surface")
    /\ Before("surface", "device")
    /\ Before("swapchain", "render_pass")
    /\ Before("render_pass", "pipeline")
    /\ Before("semaphores", "fences")
    /\ Before("command_buffers", "semaphores")
    /\ version = "rs" =>
          /\ Before("device", "swapchain")
          /\ Before("pipeline", "command_buffers")
    /\ version = "mod" =>
          /\ Before("device", "command_buffers")
          /\ Before("fences", "swapchain")

\* new of vulkanapp.rs has returned with everything created
C9_Witness ==
    /\ version = "rs"
    /\ pc = "loop_check"
    /\ new_step = Len(NewPlanRs)
    /\ Created("surface") /\ Created("device") /\ Created("pipeline") /\ Created("fences")

\* C10: once Escape has been handled should_close is set and no further iteration
\* starts; the loop is left only with should_close set and after the draw_frame of
\* the last iteration has returned; should_close is set only by an Escape press or
\* by a close request from the window system.
C10_EscapeEndsLoop ==
    /\ escapeIteration # NONE => should_close /\ iteration = escapeIteration
    /\ pc = "exited" => should_close /\ drawCalls = iteration /\ drawReturns = iteration
    /\ should_close => escapeIteration # NONE \/ close_requested

\* the loop has exited because of Escape alone, after drawing the frame of that iteration
C10_Witness ==
    /\ pc = "exited"
    /\ escapeIteration # NONE
    /\ ~close_requested
    /\ drawReturns = escapeIteration

(***************************************************************************)
(* Properties of draw_frame (Spec)                                         *)
(***************************************************************************)
\* position of the first call named op in steps, 0 when there is none
First(op) ==
    IF \E k \in 1..Len(steps) : steps[k][1] = op
    THEN CHOOSE k \in 1..Len(steps) :
            /\ steps[k][1] = op
            /\ \A j \in 1..(k - 1) : steps[j][1] # op
    ELSE 0
Count(op) == Cardinality({k \in 1..Len(steps) : steps[k][1] = op})
\* call b is made only after call a
Follows(a, b) == First(b) # 0 => (First(a) # 0 /\ First(a) < First(b))

\* C11: within one draw_frame the calls are made in the order wait_for_fences,
\* reset_fences, acquire_next_image, record, queue_submit, queue_present, each of
\* them but reset_fences once; the fence waited on is the fence reset and the fence
\* given to queue_submit; acquire signals the image-available semaphore the submit
\* waits on; the submit signals the render-finished semaphore the present waits on;
\* a draw_frame that has returned has made all of these calls.
C11_DrawFrameOrder ==
    /\ Follows("wait_for_fences", "reset_fences")
    /\ Follows("reset_fences", "acquire_next_image")
    /\ Follows("acquire_next_image", "record")
    /\ Follows("record", "queue_submit")
    /\ Follows("queue_submit", "queue_present")
    /\ \A op \in {"wait_for_fences", "acquire_next_image", "record", "queue_submit",
                  "queue_present"} : Count(op) <= 1
    /\ First("reset_fences") # 0 =>
          steps[First("reset_fences")][2] = steps[First("wait_for_fences")][2]
    /\ First("acquire_next_image") # 0 =>
          steps[First("acquire_next_image")][2][1] = "image_available"
    /\ First("queue_submit") # 0 =>
          LET submit == steps[First("queue_submit")]
          IN  /\ submit[2] = steps[First("acquire_next_image")][2]
              /\ submit[3] = steps[First("record")][2]
              /\ submit[4][1] = "render_finished"
              /\ submit[5] = steps[First("wait_for_fences")][2]
              /\ \A k \in 1..Len(steps) :
                    (steps[k][1] = "reset_fences" /\ k < First("queue_submit")) =>
                        steps[k][2] = submit[5]
    /\ First("queue_present") # 0 =>
          steps[First("queue_present")][2] = steps[First("queue_submit")][4]
    /\ (pc = "loop_check" /\ steps # <<>>) => First("queue_present") = Len(steps)
    /\ (pc = "draw_present" /\ panic = "") => First("queue_submit") # 0

\* a draw_frame of mod.rs has returned after all its calls
C11_Witness ==
    /\ pc = "loop_check"
    /\ version = "mod"
    /\ drawReturns = 2
    /\ First("queue_present") = Len(steps)
    /\ First("queue_submit") # 0
    /\ steps[First("queue_present")][2] = <<"render_finished", 1>>

\* a submission still in the queue will signal fence f
SubmitPending(f) ==
    \E k \in 1..Len(gpuQueue) : gpuQueue[k].kind = "draw" /\ gpuQueue[k].fence = f

\* C12: while the program runs, every in-flight fence that is unsignaled is the fence
\* of a submission still in the queue, except for the fence of the current draw_frame
\* between its reset and its queue_submit; so at the start of a draw_frame the fence
\* it waits on is signaled or will be signaled by a submission of an earlier frame.
C12_FenceNeverStuck ==
    panic = "" =>
        \A f \in 1..Len(in_flight_fences) :
            ~in_flight_fences[f] =>
                \/ SubmitPending(f)
                \/ pc \in {"draw_fill", "draw_record", "draw_submit"} /\ f = FrameFence

\* a draw_frame starts while the fence it waits on is unsignaled and its submission pending
C12_Witness ==
    /\ pc = "draw_wait"
    /\ panic = ""
    /\ drawReturns >= 1
    /\ ~in_flight_fences[FrameFence]
    /\ SubmitPending(FrameFence)

\* C13: no command buffer is reset or re-recorded while a submission of that same
\* command buffer is still in the queue: when draw_frame is about to reset a command
\* buffer, after its fence wait, no pending submission uses it, whatever the frame
\* number and the image index acquired.
C13_NoCommandBufferReuseInFlight ==
    /\ ~cbRace
    /\ (pc = "draw_record" /\ panic = "") =>
          \A k \in 1..Len(gpuQueue) :
              gpuQueue[k].kind = "draw" => gpuQueue[k].cb # FrameCommandBuffer

\* mod.rs records command buffer 0 for the third frame while the second frame,
\* which used command buffer 1, is still in the queue
C13_Witness ==
    /\ version = "mod"
    /\ pc = "draw_submit"
    /\ drawReturns = 2
    /\ FrameCommandBuffer = 0
    /\ \E k \in 1..Len(gpuQueue) : gpuQueue[k].kind = "draw" /\ gpuQueue[k].cb = 1
    /\ ~cbRace

\* C14: in mod.rs, once new has returned, cur_frame < command_buffers.len(),
\* in_flight_frame < IN_FLIGHT_FRAMES and cur_frame = in_flight_frame in every state,
\* and each draw_frame has advanced both by one modulo the bound: they equal the
\* number of frames drawn modulo 2.
C14_FrameIndices ==
    (version = "mod" /\ pc # "new") =>
        LET advanced == drawReturns + (IF pc = "draw_present" THEN 1 ELSE 0)
        IN  /\ cur_frame < command_buffers
            /\ in_flight_frame < IN_FLIGHT_FRAMES
            /\ cur_frame = in_flight_frame
            /\ cur_frame = advanced % command_buffers
            /\ in_flight_frame = advanced % IN_FLIGHT_FRAMES

\* two draw_frame calls of mod.rs have returned and the indices have wrapped to 0
C14_Witness ==
    /\ version = "mod"
    /\ pc = "loop_check"
    /\ drawReturns = 2
    /\ cur_frame = 0
    /\ in_flight_frame = 0

\* C15: in vulkanapp.rs, after any recreations and frames, the image index that
\* acquire_next_image returned is below command_buffers.len() and below the number of
\* framebuffers of the current swapchain, and draw_frame never panics on an index.
C15_ImageIndexInBounds ==
    version = "rs" =>
        /\ panic # "index out of bounds"
        /\ pc \in {"draw_record", "draw_submit"} =>
              /\ image_index < command_buffers
              /\ image_index < swapchain_dependent_resources[1].image_count

\* C16: in mod.rs the vertex buffer is never written by a frame's fill_buffer while
\* a draw submitted by an earlier frame, which reads it, is still in the queue.
C16_NoVertexBufferWriteRace ==
    version = "mod" => ~vbRace

(***************************************************************************)
(* Properties of the swapchain-dependent objects (Spec)                    *)
(***************************************************************************)
\* C17: once new has returned, swapchain_dependent_resources is Some in every state;
\* the unwrap of draw_frame never panics and recreate_swapchain never takes its
\* None branch (in which it would return without passing through the creation).
C17_ResourcesAlwaysSome ==
    /\ pc # "new" => swapchain_dependent_resources # <<>>
    /\ panic # "called Option::unwrap() on a None value"
    /\ pc \in {"rc_create", "rc_destroy_old"} => old_swapchain # NONE
    /\ batchRecreations > 0 => generation > batchRecreations

\* a recreation has returned and the next draw_frame has unwrapped the new resources
C17_Witness ==
    /\ pc = "draw_record"
    /\ panic = ""
    /\ batchRecreations = 1
    /\ swapchain_dependent_resources # <<>>
    /\ swapchain_dependent_resources[1].swapchain = 1

\* C18: every object create_swapchain_dependent_resources created for a swapchain
\* generation is destroyed by the next recreate_swapchain: outside a recreation the
\* live swapchain-dependent objects are exactly those of the current swapchain, and
\* inside one nothing older than the swapchain being replaced is live, so their
\* number does not grow with the number of recreations.
C18_NoLeakAcrossRecreations ==
    swapchain_dependent_resources # <<>> =>
        LET r == swapchain_dependent_resources[1]
            current == CreatedObjects(version, r.swapchain, r.image_count)
        IN  /\ (pc \notin RcPcs /\ pc # "new") => live = current
            /\ pc = "rc_create" => live = {Handle("swapchain", old_swapchain, 0)}
            /\ pc = "rc_destroy_old" =>
                  live = current \cup {Handle("swapchain", old_swapchain, 0)}

=============================================================================
